---- MODULE Spec2Model ----
(***************************************************************************)
(* aare.ai Azure verification service.                                     *)
(*                                                                         *)
(*   function_app.py              the verify HTTP endpoint                 *)
(*   handlers/ontology_loader.py  OntologyLoader (blob storage, default    *)
(*                                ontology, lru_cache)                     *)
(*                                                                         *)
(* The extraction engine (LLMParser.parse) and the evaluation engine       *)
(* (SMTVerifier.verify) are imported by function_app.py but their code is  *)
(* not among the sources; they are modelled from sections 4.2 and 4.3 of   *)
(* the specification.                                                      *)
(***************************************************************************)
EXTENDS Integers, Sequences, FiniteSets, TLC

(***************************************************************************)
(* Bounds of the model.                                                    *)
(***************************************************************************)
\* words per input text of the pipeline specification
MaxWords == 3
\* distinct revisions a stored blob goes through
MaxRev == 2
\* ontology names beyond the capacity of the cache
ExtraNames == 1
\* cache hits per run of the cache specification
MaxHits == 1
\* ontology names a request can carry
NumHandlerNames == 2

(***************************************************************************)
(* Text: a string is a sequence of one-character strings.                  *)
(***************************************************************************)
LowerMap ==
    ("A" :> "a") @@ ("B" :> "b") @@ ("C" :> "c") @@ ("D" :> "d") @@ ("E" :> "e") @@
    ("F" :> "f") @@ ("G" :> "g") @@ ("H" :> "h") @@ ("I" :> "i") @@ ("J" :> "j") @@
    ("K" :> "k") @@ ("L" :> "l") @@ ("M" :> "m") @@ ("N" :> "n") @@ ("O" :> "o") @@
    ("P" :> "p") @@ ("Q" :> "q") @@ ("R" :> "r") @@ ("S" :> "s") @@ ("T" :> "t") @@
    ("U" :> "u") @@ ("V" :> "v") @@ ("W" :> "w") @@ ("X" :> "x") @@ ("Y" :> "y") @@
    ("Z" :> "z")

Lower(c) == IF c \in DOMAIN LowerMap THEN LowerMap[c] ELSE c

\* case-insensitive matching: both engines match on the lowered text
LowerText(t) == [i \in 1..Len(t) |-> Lower(t[i])]

StartsAt(t, i, w) ==
    /\ i >= 1
    /\ i + Len(w) - 1 <= Len(t)
    /\ \A j \in 1..Len(w) : t[i + j - 1] = w[j]

\* substring test
Contains(t, w) == \E i \in 1..(Len(t) - Len(w) + 1) : StartsAt(t, i, w)

Digits == {"0", "1", "2", "3", "4", "5", "6", "7", "8", "9"}

DigitVal ==
    ("0" :> 0) @@ ("1" :> 1) @@ ("2" :> 2) @@ ("3" :> 3) @@ ("4" :> 4) @@
    ("5" :> 5) @@ ("6" :> 6) @@ ("7" :> 7) @@ ("8" :> 8) @@ ("9" :> 9)

\* \s of the pattern language
Space == {" ", "\t", "\n"}

\* the last index of the longest run of characters of class cls that starts
\* at i (i - 1 when the run is empty): a greedy  [cls]*
RunEnd(t, i, cls) ==
    CHOOSE j \in (i - 1)..Len(t) :
        /\ \A k \in i..j : t[k] \in cls
        /\ (j = Len(t) \/ t[j + 1] \notin cls)

Slice(t, i, j) == [k \in 1..(j - i + 1) |-> t[i + k - 1]]

RECURSIVE ParseInt(_)
ParseInt(ds) ==
    IF Len(ds) = 0 THEN 0
    ELSE 10 * ParseInt(SubSeq(ds, 1, Len(ds) - 1)) + DigitVal[ds[Len(ds)]]

RECURSIVE Pow10(_)
Pow10(n) == IF n = 0 THEN 1 ELSE 10 * Pow10(n - 1)

\* the leftmost of the positions S, 0 when there is none (re.search)
Leftmost(S) == IF S = {} THEN 0 ELSE CHOOSE i \in S : \A k \in S : i <= k

(***************************************************************************)
(* The default ontology: OntologyLoader._get_default_ontology.             *)
(* A formula is the tree of its formula_readable text.                     *)
(***************************************************************************)
Var(v) == [op |-> "VAR", var |-> v]
Cmp(o, v, n) == [op |-> o, var |-> v, lit |-> n]
Not(f) == [op |-> "NOT", a |-> f]
And(f, g) == [op |-> "AND", a |-> f, b |-> g]
Or(f, g) == [op |-> "OR", a |-> f, b |-> g]
Implies(f, g) == [op |-> "IMPLIES", a |-> f, b |-> g]

\* a mutant: the compensating-factors disjunct is lost
ATR_QM_DTI_dti_only ==
    [id |-> "ATR_QM_DTI",
     formula |-> Cmp("LE", "dti", 43),
     variables |-> << [name |-> "dti", type |-> "real"],
                      [name |-> "compensating_factors", type |-> "int"] >>,
     error_message |-> "DTI exceeds 43% without sufficient compensating factors",
     citation |-> "12 CFR 1026.43(c)"]

\* a mutant: compensating_factors is not declared
ATR_QM_DTI_one_variable ==
    [id |-> "ATR_QM_DTI",
     formula |-> Or(Cmp("LE", "dti", 43), Cmp("GE", "compensating_factors", 2)),
     variables |-> << [name |-> "dti", type |-> "real"] >>,
     error_message |-> "DTI exceeds 43% without sufficient compensating factors",
     citation |-> "12 CFR 1026.43(c)"]

\* (dti <= 43) \/ (compensating_factors >= 2)
ATR_QM_DTI ==
    [id |-> "ATR_QM_DTI",
     formula |-> Or(Cmp("LE", "dti", 43), Cmp("GE", "compensating_factors", 2)),
     variables |-> << [name |-> "dti", type |-> "real"],
                      [name |-> "compensating_factors", type |-> "int"] >>,
     error_message |-> "DTI exceeds 43% without sufficient compensating factors",
     citation |-> "12 CFR 1026.43(c)"]

\* (fee_percentage < 8) \/ counseling_disclosed
HOEPA_HIGH_COST ==
    [id |-> "HOEPA_HIGH_COST",
     formula |-> Or(Cmp("LT", "fee_percentage", 8), Var("counseling_disclosed")),
     variables |-> << [name |-> "fee_percentage", type |-> "real"],
                      [name |-> "counseling_disclosed", type |-> "bool"] >>,
     error_message |-> "HOEPA triggered - counseling disclosure required",
     citation |-> "12 CFR 1026.32"]

\* ~(has_guarantee /\ has_approval)
UDAAP_NO_GUARANTEES ==
    [id |-> "UDAAP_NO_GUARANTEES",
     formula |-> Not(And(Var("has_guarantee"), Var("has_approval"))),
     variables |-> << [name |-> "has_guarantee", type |-> "bool"],
                      [name |-> "has_approval", type |-> "bool"] >>,
     error_message |-> "Cannot guarantee approval",
     citation |-> "12 CFR 1036.3"]

\* (credit_score >= 620) \/ ~escrow_waived
HPML_ESCROW ==
    [id |-> "HPML_ESCROW",
     formula |-> Or(Cmp("GE", "credit_score", 620), Not(Var("escrow_waived"))),
     variables |-> << [name |-> "credit_score", type |-> "int"],
                      [name |-> "escrow_waived", type |-> "bool"] >>,
     error_message |-> "Cannot waive escrow with FICO < 620",
     citation |-> "12 CFR 1026.35(b)"]

\* is_denial => has_specific_reason
REG_B_ADVERSE ==
    [id |-> "REG_B_ADVERSE",
     formula |-> Implies(Var("is_denial"), Var("has_specific_reason")),
     variables |-> << [name |-> "is_denial", type |-> "bool"],
                      [name |-> "has_specific_reason", type |-> "bool"] >>,
     error_message |-> "Must disclose specific denial reason",
     citation |-> "12 CFR 1002.9"]

DefaultConstraints ==
    << ATR_QM_DTI, HOEPA_HIGH_COST, UDAAP_NO_GUARANTEES, HPML_ESCROW, REG_B_ADVERSE >>

PatternRule(t, p) == [type |-> t, pattern |-> p, keywords |-> << >>]
KeywordRule(kws) == [type |-> "boolean", pattern |-> "", keywords |-> kws]

\* the patterns, as the source writes them
PAT_DTI == "dti[:\\s~]*(\\d+(?:\\.\\d+)?)"
PAT_CREDIT_SCORE == "(?:fico|credit score)[:\\s]*(\\d{3})"
PAT_FEES == "\\$?([\\d,]+)k?\\s*(?:fees?|costs?)"
PAT_LOAN_AMOUNT == "\\$?([\\d,]+)k?\\s*(?:loan|mortgage)"

KW_guaranteed == <<"g","u","a","r","a","n","t","e","e","d">>
KW_100pct == <<"1","0","0","%">>
KW_definitely == <<"d","e","f","i","n","i","t","e","l","y">>
KW_approved == <<"a","p","p","r","o","v","e","d">>
KW_approve == <<"a","p","p","r","o","v","e">>
KW_counseling == <<"c","o","u","n","s","e","l","i","n","g">>
KW_escrow_waived == <<"e","s","c","r","o","w"," ","w","a","i","v","e","d">>
KW_waive_escrow == <<"w","a","i","v","e"," ","e","s","c","r","o","w">>
KW_skip_escrow == <<"s","k","i","p"," ","e","s","c","r","o","w">>
KW_denied == <<"d","e","n","i","e","d">>
KW_cannot_approve == <<"c","a","n","n","o","t"," ","a","p","p","r","o","v","e">>
KW_credit == <<"c","r","e","d","i","t">>
KW_income == <<"i","n","c","o","m","e">>
KW_dti == <<"d","t","i">>
KW_debt == <<"d","e","b","t">>
KW_score == <<"s","c","o","r","e">>

\* a mutant: the keyword "guaranteed" is misspelt
has_guarantee_misspelt ==
    KeywordRule(<< <<"g","u","a","r","e","n","t","e","e","d">>, KW_100pct, KW_definitely >>)

has_guarantee_rule == KeywordRule(<< KW_guaranteed, KW_100pct, KW_definitely >>)

DefaultExtractors ==
    [dti |-> PatternRule("float", PAT_DTI),
     credit_score |-> PatternRule("int", PAT_CREDIT_SCORE),
     fees |-> PatternRule("money", PAT_FEES),
     loan_amount |-> PatternRule("money", PAT_LOAN_AMOUNT),
     has_guarantee |-> has_guarantee_rule,
     has_approval |-> KeywordRule(<< KW_approved, KW_approve >>),
     counseling_disclosed |-> KeywordRule(<< KW_counseling >>),
     escrow_waived |-> KeywordRule(<< KW_escrow_waived, KW_waive_escrow, KW_skip_escrow >>),
     is_denial |-> KeywordRule(<< KW_denied, KW_cannot_approve >>),
     has_specific_reason |->
         KeywordRule(<< KW_credit, KW_income, KW_dti, KW_debt, KW_score >>)]

get_default_ontology ==
    [name |-> "mortgage-compliance-v1",
     version |-> "1.0.0",
     description |-> "U.S. Mortgage Compliance - Core constraints",
     constraints |-> DefaultConstraints,
     extractors |-> DefaultExtractors]

(***************************************************************************)
(* The extraction engine, LLMParser.parse (section 4.2).                   *)
(* A value is absent, a boolean, or the exact decimal num / den.           *)
(***************************************************************************)
Absent == [tag |-> "absent", b |-> FALSE, num |-> 0, den |-> 1]
BoolV(x) == [tag |-> "bool", b |-> x, num |-> 0, den |-> 1]
NumV(n, d) == [tag |-> "num", b |-> FALSE, num |-> n, den |-> d]

\* dti[:\s~]*(\d+(?:\.\d+)?)  coerced as a decimal number
MatchDti(t) ==
    LET sepEnd(i) == RunEnd(t, i + 3, Space \cup {":", "~"})
        intEnd(i) == RunEnd(t, sepEnd(i) + 1, Digits)
        ok(i) == StartsAt(t, i, KW_dti) /\ intEnd(i) > sepEnd(i)
        i0 == Leftmost({i \in 1..Len(t) : ok(i)})
    IN  IF i0 = 0 THEN Absent
        ELSE LET ie == intEnd(i0)
                 fe == IF ie + 1 <= Len(t) /\ t[ie + 1] = "."
                       THEN RunEnd(t, ie + 2, Digits) ELSE ie + 1
                 int == Slice(t, sepEnd(i0) + 1, ie)
                 frac == IF fe > ie + 1 THEN Slice(t, ie + 2, fe) ELSE << >>
             IN  NumV(ParseInt(int \o frac), Pow10(Len(frac)))

\* (?:fico|credit score)[:\s]*(\d{3})  coerced as an integer
MatchCreditScore(t) ==
    LET head(i) == IF StartsAt(t, i, <<"f","i","c","o">>) THEN 4
                   ELSE IF StartsAt(t, i, <<"c","r","e","d","i","t"," ","s","c","o","r","e">>)
                        THEN 12 ELSE 0
        sepEnd(i) == RunEnd(t, i + head(i), Space \cup {":"})
        ok(i) == /\ head(i) > 0
                 /\ sepEnd(i) + 3 <= Len(t)
                 /\ \A k \in 1..3 : t[sepEnd(i) + k] \in Digits
        i0 == Leftmost({i \in 1..Len(t) : ok(i)})
    IN  IF i0 = 0 THEN Absent
        ELSE NumV(ParseInt(Slice(t, sepEnd(i0) + 1, sepEnd(i0) + 3)), 1)

\* \$?([\d,]+)k?\s*(?:w1|w2)  coerced as money: separators removed, a "k"
\* after the amount multiplies it by 1000
MatchMoney(t, w1, w2) ==
    LET from(i) == IF t[i] = "$" THEN i + 1 ELSE i
        amtEnd(i) == RunEnd(t, from(i), Digits \cup {","})
        kEnd(i) == IF amtEnd(i) + 1 <= Len(t) /\ t[amtEnd(i) + 1] = "k"
                   THEN amtEnd(i) + 1 ELSE amtEnd(i)
        wsEnd(i) == RunEnd(t, kEnd(i) + 1, Space)
        tail(i) == StartsAt(t, wsEnd(i) + 1, w1) \/ StartsAt(t, wsEnd(i) + 1, w2)
        ok(i) == amtEnd(i) >= from(i) /\ tail(i)
        i0 == Leftmost({i \in 1..Len(t) : ok(i)})
    IN  IF i0 = 0 THEN Absent
        ELSE LET raw == Slice(t, from(i0), amtEnd(i0))
                 ds == SelectSeq(raw, LAMBDA c : c \in Digits)
             IN  IF Len(ds) = 0 THEN Absent
                 ELSE NumV(ParseInt(ds) * (IF kEnd(i0) > amtEnd(i0) THEN 1000 ELSE 1), 1)

\* one extractor applied to the whole (lowered) text
ExtractOne(t, rule) ==
    IF rule.type = "boolean"
    THEN BoolV(\E k \in 1..Len(rule.keywords) : Contains(t, rule.keywords[k]))
    ELSE IF rule.pattern = PAT_DTI THEN MatchDti(t)
    ELSE IF rule.pattern = PAT_CREDIT_SCORE THEN MatchCreditScore(t)
    ELSE IF rule.pattern = PAT_FEES
         THEN MatchMoney(t, <<"f","e","e">>, <<"c","o","s","t">>)
    ELSE IF rule.pattern = PAT_LOAN_AMOUNT
         THEN MatchMoney(t, <<"l","o","a","n">>, <<"m","o","r","t","g","a","g","e">>)
    ELSE Absent

\* LLMParser.parse(llm_output, ontology): every extractor, independently
parse(text, ontology) ==
    [v \in DOMAIN ontology.extractors |->
        ExtractOne(LowerText(text), ontology.extractors[v])]

(***************************************************************************)
(* The evaluation engine, SMTVerifier.verify (section 4.3): three-valued   *)
(* logic, "T", "F" or "U" (unknown).                                       *)
(***************************************************************************)
Lookup(data, v) == IF v \in DOMAIN data THEN data[v] ELSE Absent

Neg3(x) == IF x = "T" THEN "F" ELSE IF x = "F" THEN "T" ELSE "U"
And3(x, y) == IF x = "F" \/ y = "F" THEN "F"
              ELSE IF x = "T" /\ y = "T" THEN "T" ELSE "U"
Or3(x, y) == IF x = "T" \/ y = "T" THEN "T"
             ELSE IF x = "F" /\ y = "F" THEN "F" ELSE "U"
Bool3(x) == IF x THEN "T" ELSE "F"

\* exact comparison of num / den with the integer literal
Compare(o, val, lit) ==
    IF val.tag # "num" THEN "U"
    ELSE IF o = "LE" THEN Bool3(val.num <= lit * val.den)
    ELSE IF o = "LT" THEN Bool3(val.num < lit * val.den)
    ELSE IF o = "GE" THEN Bool3(val.num >= lit * val.den)
    ELSE IF o = "GT" THEN Bool3(val.num > lit * val.den)
    ELSE "U"

RECURSIVE Eval(_, _)
Eval(f, data) ==
    IF f.op = "VAR"
    THEN (IF Lookup(data, f.var).tag = "bool" THEN Bool3(Lookup(data, f.var).b) ELSE "U")
    ELSE IF f.op = "NOT" THEN Neg3(Eval(f.a, data))
    ELSE IF f.op = "AND" THEN And3(Eval(f.a, data), Eval(f.b, data))
    ELSE IF f.op = "OR" THEN Or3(Eval(f.a, data), Eval(f.b, data))
    ELSE IF f.op = "IMPLIES" THEN Or3(Neg3(Eval(f.a, data)), Eval(f.b, data))
    ELSE Compare(f.op, Lookup(data, f.var), f.lit)

VarNames(c) == [i \in 1..Len(c.variables) |-> c.variables[i].name]

\* the proof-trace record of one constraint
ProofRecord(c, data) ==
    [constraint_id |-> c.id,
     truth_value |-> Eval(c.formula, data),
     variables_used |-> VarNames(c),
     missing_variables |->
         SelectSeq(VarNames(c), LAMBDA v : Lookup(data, v).tag = "absent")]

\* SMTVerifier.verify(extracted_data, ontology)
smt_verify(data, ontology) ==
    LET proof == [i \in 1..Len(ontology.constraints) |->
                     ProofRecord(ontology.constraints[i], data)]
        falses == SelectSeq(proof, LAMBDA r : r.truth_value = "F")
        violations == [i \in 1..Len(falses) |-> falses[i].constraint_id]
    IN  [verified |-> Len(violations) = 0,
         violations |-> violations,
         proof |-> proof]

(***************************************************************************)
(* OntologyLoader: blob storage, validation, the default, the cache.       *)
(*                                                                         *)
(* An ontology value is a handle: the built-in default, or a stored        *)
(* document, described by the kind of JSON value it parsed to, the         *)
(* required names the Python test "field in ontology" finds in it (keys of *)
(* an object, elements of an array), and the revision of the blob.         *)
(***************************************************************************)
\* lru_cache(maxsize=10)
maxsize == 10

NumNames == maxsize + ExtraNames
Names == 1..NumNames

required_fields == << "name", "version", "constraints", "extractors" >>
RequiredSet == {required_fields[i] : i \in 1..Len(required_fields)}

NoOntology == [src |-> "none", kind |-> "none", fields |-> {}, rev |-> 0]

DefaultHandle ==
    [src |-> "default", kind |-> "object",
     fields |-> DOMAIN get_default_ontology, rev |-> 0]

Doc(k, fs, r) == [src |-> "stored", kind |-> k, fields |-> fs, rev |-> r]

\* what json.loads can give for a blob at revision r
Documents(r) ==
    {Doc(k, fs, r) : k \in {"object", "array"}, fs \in SUBSET RequiredSet}
        \cup {Doc("scalar", {}, r)}

NoError == [etype |-> "none", msg |-> ""]
Raised(t, m) == [etype |-> t, msg |-> m]

\* a mutant: every document passes
validate_ontology_accept_all(ontology) == NoError

\* OntologyLoader._validate_ontology: the error it raises, NoError when it
\* returns the ontology.  "field not in ontology" raises TypeError on a
\* JSON number, boolean or null.
validate_ontology(ontology) ==
    IF ontology.kind = "scalar" THEN Raised("TypeError", "not iterable")
    ELSE IF \E i \in 1..Len(required_fields) : required_fields[i] \notin ontology.fields
    THEN LET i0 == CHOOSE i \in 1..Len(required_fields) :
                      /\ required_fields[i] \notin ontology.fields
                      /\ \A k \in 1..(i - 1) : required_fields[k] \in ontology.fields
         IN  Raised("ValueError", required_fields[i0])
    ELSE NoError

\* what one access to blob storage gives
NotFound == [o |-> "not_found", doc |-> NoOntology]
StorageError == [o |-> "storage_error", doc |-> NoOntology]
BadJson == [o |-> "bad_json", doc |-> NoOntology]
Fetched(d) == [o |-> "doc", doc |-> d]

StorageOutcomes(r) ==
    {NotFound, StorageError, BadJson} \cup {Fetched(d) : d \in Documents(r)}

\* the body of OntologyLoader.load: the value returned and the exception the
\* try block caught, given whether a blob client exists and what storage gave
load_body(client, outcome) ==
    IF ~client
    THEN [result |-> DefaultHandle, contacted |-> FALSE, caught |-> NoError]
    ELSE IF outcome.o = "not_found"
    THEN [result |-> DefaultHandle, contacted |-> TRUE,
          caught |-> Raised("ResourceNotFoundError", "")]
    ELSE IF outcome.o = "storage_error"
    THEN [result |-> DefaultHandle, contacted |-> TRUE,
          caught |-> Raised("StorageError", "")]
    ELSE IF outcome.o = "bad_json"
    THEN [result |-> DefaultHandle, contacted |-> TRUE,
          caught |-> Raised("JSONDecodeError", "")]
    ELSE IF validate_ontology(outcome.doc) # NoError
    THEN [result |-> DefaultHandle, contacted |-> TRUE,
          caught |-> validate_ontology(outcome.doc)]
    ELSE [result |-> outcome.doc, contacted |-> TRUE, caught |-> NoError]

\* the cache of lru_cache: entries most recently used first
CacheIndex(c, n) ==
    IF \E i \in 1..Len(c) : c[i].key = n
    THEN CHOOSE i \in 1..Len(c) : c[i].key = n
    ELSE 0

MoveToFront(c, i) == << c[i] >> \o SubSeq(c, 1, i - 1) \o SubSeq(c, i + 1, Len(c))

\* a mutant: the entry count is compared off by one
CacheInsert_evict_early(c, n, v) ==
    IF Len(c) >= maxsize - 1
    THEN << [key |-> n, value |-> v] >> \o SubSeq(c, 1, maxsize - 2)
    ELSE << [key |-> n, value |-> v] >> \o c

\* a new entry; the least recently used one is dropped from a full cache
CacheInsert(c, n, v) ==
    IF Len(c) >= maxsize
    THEN << [key |-> n, value |-> v] >> \o SubSeq(c, 1, maxsize - 1)
    ELSE << [key |-> n, value |-> v] >> \o c

\* load(ontology_name) under lru_cache: a hit returns the cached value
\* without running the body; a miss runs it and caches what it returns
load(c, client, n, outcome) ==
    LET i == CacheIndex(c, n)
    IN  IF i > 0
        THEN [cache |-> MoveToFront(c, i), hit |-> TRUE, name |-> n,
              result |-> c[i].value, contacted |-> FALSE, caught |-> NoError]
        ELSE LET r == load_body(client, outcome)
             IN  [cache |-> CacheInsert(c, n, r.result), hit |-> FALSE, name |-> n,
                  result |-> r.result, contacted |-> r.contacted, caught |-> r.caught]

\* the names in order of last use, however long ago
Touch(h, n) == << n >> \o SelectSeq(h, LAMBDA x : x # n)

Position(h, n) ==
    IF \E i \in 1..Len(h) : h[i] = n THEN CHOOSE i \in 1..Len(h) : h[i] = n ELSE 0

(***************************************************************************)
(* function_app.py: the verify endpoint.                                   *)
(***************************************************************************)
ALLOWED_ORIGINS ==
    << "https://aare.ai", "https://www.aare.ai",
       "http://localhost:8000", "http://localhost:3000" >>

AllowedSet == {ALLOWED_ORIGINS[i] : i \in 1..Len(ALLOWED_ORIGINS)}

\* a mutant: the request's origin is echoed whatever it is
get_cors_headers_echo(headers) == IF headers.has_origin THEN headers.origin ELSE ""

\* get_cors_headers: the value of Access-Control-Allow-Origin
get_cors_headers(headers) ==
    LET origin == IF headers.has_origin THEN headers.origin ELSE ""
    IN  IF origin \in AllowedSet THEN origin ELSE ALLOWED_ORIGINS[1]

\* a mutant: the test of llm_output is lost
not_llm_output_never(llm) == FALSE

\* "not llm_output": missing (the default "") or empty
not_llm_output(llm) == Len(llm) = 0

\* "except ValueError" catches ValueError and its subclasses
IsValueError(etype) == etype \in {"ValueError", "JSONDecodeError", "UnicodeDecodeError"}

NoResponse ==
    [status_code |-> 0, kind |-> "none", error |-> "", type |-> "", allow_origin |-> ""]

HttpResponse(status, kind, error, type, cors) ==
    [status_code |-> status, kind |-> kind, error |-> error, type |-> type,
     allow_origin |-> cors]

\* the two except clauses of verify
ErrorResponse(err, cors) ==
    IF IsValueError(err.etype)
    THEN HttpResponse(400, "error", "Invalid JSON in request body", "", cors)
    ELSE HttpResponse(500, "error", err.msg, err.etype, cors)

(***************************************************************************)
(* Inputs.                                                                 *)
(***************************************************************************)
Vocabulary ==
    << <<"g","u","a","r","a","n","t","e","e","d">>,
       <<"A","p","p","r","o","v","e","d">>,
       <<"d","t","i">>,
       <<"4","3">>,
       <<"D","T","I",":"," ","4","3",".","5">>,
       <<"f","i","c","o"," ","5","8","0">>,
       <<"e","s","c","r","o","w"," ","w","a","i","v","e","d">>,
       <<"d","e","n","i","e","d">>,
       <<"i","n","c","o","m","e">>,
       <<"$","4","5","0","k"," ","f","e","e","s">> >>

RECURSIVE Join(_)
Join(ws) ==
    IF Len(ws) = 0 THEN << >>
    ELSE IF Len(ws) = 1 THEN Vocabulary[ws[1]]
    ELSE Vocabulary[ws[1]] \o << " " >> \o Join(Tail(ws))

WordSeqs == UNION {[1..n -> 1..Len(Vocabulary)] : n \in 0..MaxWords}

\* the texts of the pipeline specification
Texts == {Join(ws) : ws \in WordSeqs}

\* the texts a request carries: "guaranteed Approved", "DTI: 43.5"
HandlerTexts == {Join(<<1, 2>>), Join(<<5>>)}

Methods == {"POST", "OPTIONS"}

Headers ==
    {[has_origin |-> FALSE, origin |-> ""]}
        \cup {[has_origin |-> TRUE, origin |-> o] :
                 o \in AllowedSet \cup {"https://evil.example"}}

\* the name the model gives "mortgage-compliance-v1", the default of the
\* request's "ontology"
DefaultName == 1

HandlerNames == 1..NumHandlerNames

\* the request's "ontology": absent, a name, or a JSON array or object
\* (unhashable)
OntologyArgs ==
    {[given |-> FALSE, hashable |-> TRUE, name |-> DefaultName]}
        \cup {[given |-> TRUE, hashable |-> TRUE, name |-> n] : n \in HandlerNames}
        \cup {[given |-> TRUE, hashable |-> FALSE, name |-> 0]}

NoBody == [kind |-> "invalid_json", has_llm |-> FALSE, llm |-> << >>,
           ont |-> [given |-> FALSE, hashable |-> TRUE, name |-> DefaultName]]

Bodies ==
    {NoBody}
        \cup {[NoBody EXCEPT !.kind = "non_object"]}
        \cup {[kind |-> "object", has_llm |-> FALSE, llm |-> << >>, ont |-> o] :
                 o \in OntologyArgs}
        \cup {[kind |-> "object", has_llm |-> TRUE, llm |-> t, ont |-> o] :
                 t \in HandlerTexts \cup {<< >>}, o \in OntologyArgs}

NoRequest == [method |-> "none", headers |-> [has_origin |-> FALSE, origin |-> ""],
              body |-> NoBody]

NoLoad == [hit |-> FALSE, name |-> 0, result |-> NoOntology, contacted |-> FALSE,
           caught |-> NoError]

NoData == [v \in {} |-> Absent]

NoResult == [verified |-> FALSE, violations |-> << >>, proof |-> << >>]

\* the errors the engines can raise on a stored ontology
EngineErrors == {"ValueError", "JSONDecodeError", "KeyError"}

(***************************************************************************)
(* State.                                                                  *)
(***************************************************************************)
VARIABLES
    pc,                   \* where the handling of the current request stands
    req,                  \* the request
    cors_headers,         \* Access-Control-Allow-Origin computed for it
    llm_output,           \* verify's locals
    ontology_name,
    ontology,
    extracted_data,
    verification_result,
    response,             \* the HttpResponse returned
    trace,                \* the calls made for the current request, in order
    blob_service_client,  \* whether the loader has a blob client
    cache,                \* lru_cache of load
    rev,                  \* the revision of the blobs in storage
    lastLoad,             \* the most recent call of load
    returned,             \* per name, what load returned last
    recency,              \* every name loaded so far, most recent first
    namesUsed,            \* cache specification: distinct names loaded
    hits,                 \* cache specification: cache hits so far
    loads                 \* cache specification: calls of load so far

vars == << pc, req, cors_headers, llm_output, ontology_name, ontology,
           extracted_data, verification_result, response, trace,
           blob_service_client, cache, rev, lastLoad, returned, recency,
           namesUsed, hits, loads >>

handlerVars == << pc, req, cors_headers, llm_output, ontology_name, ontology,
                  extracted_data, verification_result, response, trace >>

loaderVars == << cache, lastLoad, returned, recency >>

boundVars == << namesUsed, hits, loads >>

\* OntologyLoader(): a blob client exists when a connection string is set and
\* the client could be built
Init ==
    /\ pc = "idle"
    /\ req = NoRequest
    /\ cors_headers = ""
    /\ llm_output = << >>
    /\ ontology_name = [given |-> FALSE, hashable |-> TRUE, name |-> DefaultName]
    /\ ontology = NoOntology
    /\ extracted_data = NoData
    /\ verification_result = NoResult
    /\ response = NoResponse
    /\ trace = << >>
    /\ blob_service_client \in BOOLEAN
    /\ cache = << >>
    /\ rev = 1
    /\ lastLoad = NoLoad
    /\ returned = [n \in Names |-> NoOntology]
    /\ recency = << >>
    /\ namesUsed = 0
    /\ hits = 0
    /\ loads = 0

(***************************************************************************)
(* Storage is outside the program: its blobs change revision at any time   *)
(* (the cache specification; the endpoint specification lets every access  *)
(* to storage give any outcome instead).                                   *)
(***************************************************************************)
StorageUpdate ==
    /\ rev < MaxRev
    /\ rev' = rev + 1
    /\ UNCHANGED << handlerVars, blob_service_client, loaderVars, boundVars >>

\* one call ontology_loader.load(n), storage answering with outcome
LoaderCall(n, outcome) ==
    LET r == load(cache, blob_service_client, n, outcome)
    IN  /\ cache' = r.cache
        /\ lastLoad' = [hit |-> r.hit, name |-> n, result |-> r.result,
                        contacted |-> r.contacted, caught |-> r.caught]
        /\ returned' = [returned EXCEPT ![n] = r.result]
        /\ recency' = Touch(recency, n)

(***************************************************************************)
(* verify(req), in four steps.                                             *)
(***************************************************************************)
\* lines 58-81: CORS headers, the preflight, the request body, llm_output
Receive ==
    /\ pc = "idle"
    /\ \E m \in Methods, h \in Headers, b \in Bodies :
        /\ m = "OPTIONS" => b = NoBody
        /\ req' = [method |-> m, headers |-> h, body |-> b]
        /\ cors_headers' = get_cors_headers(h)
        /\ trace' = << >>
        /\ ontology' = NoOntology
        /\ extracted_data' = NoData
        /\ verification_result' = NoResult
        /\ IF m = "OPTIONS"
           THEN /\ response' = HttpResponse(200, "empty", "", "", get_cors_headers(h))
                /\ pc' = "done"
                /\ UNCHANGED << llm_output, ontology_name >>
           ELSE IF b.kind = "invalid_json"
           THEN \* req.get_json() raises ValueError
                /\ response' = ErrorResponse(Raised("ValueError", "bad body"),
                                             get_cors_headers(h))
                /\ pc' = "done"
                /\ UNCHANGED << llm_output, ontology_name >>
           ELSE IF b.kind = "non_object"
           THEN \* req_body.get raises AttributeError
                /\ response' = ErrorResponse(Raised("AttributeError", "no get"),
                                             get_cors_headers(h))
                /\ pc' = "done"
                /\ UNCHANGED << llm_output, ontology_name >>
           ELSE /\ llm_output' = (IF b.has_llm THEN b.llm ELSE << >>)
                /\ ontology_name' = b.ont
                /\ IF not_llm_output(IF b.has_llm THEN b.llm ELSE << >>)
                   THEN /\ response' = HttpResponse(400, "error",
                                           "llm_output is required", "",
                                           get_cors_headers(h))
                        /\ pc' = "done"
                   ELSE /\ response' = NoResponse
                        /\ pc' = "load"
    /\ UNCHANGED << blob_service_client, loaderVars, rev, boundVars >>

\* line 84: ontology = ontology_loader.load(ontology_name)
LoadOntology ==
    /\ pc = "load"
    /\ IF ~ontology_name.hashable
       THEN \* lru_cache hashes its arguments: TypeError
            /\ trace' = trace \o << "load.call", "load.raise" >>
            /\ response' = ErrorResponse(Raised("TypeError", "unhashable type"),
                                         cors_headers)
            /\ pc' = "done"
            /\ UNCHANGED << ontology, loaderVars >>
       ELSE \E outcome \in StorageOutcomes(rev) :
            /\ LoaderCall(ontology_name.name, outcome)
            /\ ontology' = load(cache, blob_service_client,
                                ontology_name.name, outcome).result
            /\ trace' = trace \o << "load.call", "load.return" >>
            /\ pc' = "parse"
            /\ UNCHANGED response
    /\ UNCHANGED << req, cors_headers, llm_output, ontology_name, extracted_data,
                    verification_result, blob_service_client, rev, boundVars >>

\* the built-in ontology is well formed and the engines do not fail on it; a
\* stored document is arbitrary beyond its top-level names, and an engine may
\* raise on it
EngineOutcomes(o) == IF o.src = "default" THEN {"ok"} ELSE {"ok"} \cup EngineErrors

\* line 87: extracted_data = llm_parser.parse(llm_output, ontology)
ParseOutput ==
    /\ pc = "parse"
    /\ \E out \in EngineOutcomes(ontology) :
        IF out = "ok"
        THEN /\ extracted_data' =
                    (IF ontology.src = "default"
                     THEN parse(llm_output, get_default_ontology) ELSE NoData)
             /\ trace' = trace \o << "parse.call", "parse.return" >>
             /\ pc' = "verify"
             /\ UNCHANGED response
        ELSE /\ trace' = trace \o << "parse.call", "parse.raise" >>
             /\ response' = ErrorResponse(Raised(out, "parser failed"), cors_headers)
             /\ pc' = "done"
             /\ UNCHANGED extracted_data
    /\ UNCHANGED << req, cors_headers, llm_output, ontology_name, ontology,
                    verification_result, blob_service_client, loaderVars, rev,
                    boundVars >>

\* what the evaluation of a stored ontology can return
StoredResults ==
    {[verified |-> TRUE, violations |-> << >>, proof |-> << >>],
     [verified |-> FALSE, violations |-> << "STORED_RULE" >>, proof |-> << >>]}

\* lines 98-100: ontology["name"], ontology["version"], ontology["constraints"]
ResponseFields == {"name", "version", "constraints"}

\* lines 90-113: verification_result = smt_verifier.verify(...), then the
\* response body and the 200 response
VerifyConstraints ==
    /\ pc = "verify"
    /\ \E out \in EngineOutcomes(ontology) :
        IF out = "ok"
        THEN /\ IF ontology.src = "default"
                THEN verification_result' = smt_verify(extracted_data, get_default_ontology)
                ELSE verification_result' \in StoredResults
             /\ IF ontology.kind # "object"
                THEN \* a list is not indexed by a string
                     /\ trace' = trace \o << "verify.call", "verify.return" >>
                     /\ response' = ErrorResponse(
                            Raised("TypeError", "list indices must be integers"),
                            cors_headers)
                ELSE IF ~(ResponseFields \subseteq ontology.fields)
                THEN /\ trace' = trace \o << "verify.call", "verify.return" >>
                     /\ response' = ErrorResponse(Raised("KeyError", "name"),
                                                  cors_headers)
                ELSE /\ trace' = trace \o << "verify.call", "verify.return", "respond" >>
                     /\ response' = HttpResponse(200, "result", "", "", cors_headers)
        ELSE /\ trace' = trace \o << "verify.call", "verify.raise" >>
             /\ response' = ErrorResponse(Raised(out, "verifier failed"), cors_headers)
             /\ UNCHANGED verification_result
    /\ pc' = "done"
    /\ UNCHANGED << req, cors_headers, llm_output, ontology_name, ontology,
                    extracted_data, blob_service_client, loaderVars, rev, boundVars >>

\* verify has returned its response: its locals are gone, the loader stays
Complete ==
    /\ pc = "done"
    /\ pc' = "idle"
    /\ req' = NoRequest
    /\ cors_headers' = ""
    /\ llm_output' = << >>
    /\ ontology_name' = [given |-> FALSE, hashable |-> TRUE, name |-> DefaultName]
    /\ ontology' = NoOntology
    /\ extracted_data' = NoData
    /\ verification_result' = NoResult
    /\ response' = NoResponse
    /\ trace' = << >>
    /\ UNCHANGED << blob_service_client, loaderVars, rev, boundVars >>

Next ==
    \/ Receive
    \/ LoadOntology
    \/ ParseOutput
    \/ VerifyConstraints
    \/ Complete

Spec == Init /\ [][Next]_vars

(***************************************************************************)
(* The pipeline on the built-in ontology, over every text: the handler     *)
(* stands after line 84 with the default ontology loaded.                  *)
(***************************************************************************)
InitPipeline ==
    /\ pc = "parse"
    /\ llm_output \in Texts
    /\ req = [method |-> "POST", headers |-> [has_origin |-> FALSE, origin |-> ""],
              body |-> [kind |-> "object", has_llm |-> TRUE, llm |-> << >>,
                        ont |-> [given |-> FALSE, hashable |-> TRUE,
                                 name |-> DefaultName]]]
    /\ cors_headers = ALLOWED_ORIGINS[1]
    /\ ontology_name = [given |-> FALSE, hashable |-> TRUE, name |-> DefaultName]
    /\ ontology = DefaultHandle
    /\ extracted_data = NoData
    /\ verification_result = NoResult
    /\ response = NoResponse
    /\ trace = << "load.call", "load.return" >>
    /\ blob_service_client = FALSE
    /\ cache = << [key |-> DefaultName, value |-> DefaultHandle] >>
    /\ rev = 1
    /\ lastLoad = [hit |-> FALSE, name |-> DefaultName, result |-> DefaultHandle,
                   contacted |-> FALSE, caught |-> NoError]
    /\ returned = [n \in Names |-> IF n = DefaultName THEN DefaultHandle ELSE NoOntology]
    /\ recency = << DefaultName >>
    /\ namesUsed = 0
    /\ hits = 0
    /\ loads = 0

NextPipeline == ParseOutput \/ VerifyConstraints

SpecPipeline == InitPipeline /\ [][NextPipeline]_vars

(***************************************************************************)
(* The loader alone, called with more names than the cache holds.  Names   *)
(* are numbered in the order of their first use; what storage holds for a  *)
(* name is fixed by the name and the current revision.                     *)
(***************************************************************************)
Layout(n, r) ==
    IF n % 4 = 1 THEN Fetched(Doc("object", RequiredSet, r))
    ELSE IF n % 4 = 2 THEN NotFound
    ELSE IF n % 4 = 3 THEN Fetched(Doc("object", RequiredSet \ {"extractors"}, r))
    ELSE Fetched(Doc("array", RequiredSet, r))

MaxLoads == NumNames + 1 + MaxHits

Min(a, b) == IF a < b THEN a ELSE b

\* ontology_loader.load(n)
CacheLoad(n) ==
    /\ pc = "idle"
    /\ loads < MaxLoads
    /\ n <= Min(namesUsed + 1, NumNames)
    /\ CacheIndex(cache, n) > 0 => hits < MaxHits
    /\ LoaderCall(n, Layout(n, rev))
    /\ loads' = loads + 1
    /\ hits' = IF CacheIndex(cache, n) > 0 THEN hits + 1 ELSE hits
    /\ namesUsed' = IF n > namesUsed THEN n ELSE namesUsed
    /\ UNCHANGED << handlerVars, blob_service_client, rev >>

NextCache == (\E n \in Names : CacheLoad(n)) \/ StorageUpdate

SpecCache == Init /\ [][NextCache]_vars

(***************************************************************************)
(* Properties.                                                             *)
(***************************************************************************)
Events(tr) == {tr[i] : i \in 1..Len(tr)}

Count(tr, e) == Cardinality({i \in 1..Len(tr) : tr[i] = e})

IsPrefix(a, b) == Len(a) <= Len(b) /\ \A i \in 1..Len(a) : a[i] = b[i]

\* the current request called load and load returned
LoadedNow == "load.return" \in Events(trace)

\* the load of the current request fetched a document that lacks a required
\* top-level field: _validate_ontology raised ValueError naming it
RejectedNow ==
    /\ LoadedNow
    /\ lastLoad.caught.etype = "ValueError"
    /\ lastLoad.caught.msg \in RequiredSet

\* C1: an ontology document that lacks a required top-level field fails
\* validation with an error naming the field, and the failure is surfaced to
\* the caller of verify: for such a stored document neither the parser nor the
\* verifier is run, and the default ontology is not substituted for it.
C1_SchemaErrorSurfaced ==
    RejectedNow =>
        /\ ontology # DefaultHandle
        /\ "parse.call" \notin Events(trace)
        /\ "verify.call" \notin Events(trace)
        /\ response.status_code # 200

\* validation as section 4.1 defines it
PassesValidation(o) ==
    /\ RequiredSet \subseteq DOMAIN o
    /\ \A i, j \in 1..Len(o.constraints) :
          i # j => o.constraints[i].id # o.constraints[j].id
    /\ \A i \in 1..Len(o.constraints) : \A j \in 1..Len(o.constraints[i].variables) :
          o.constraints[i].variables[j].name \in DOMAIN o.extractors

\* C2: the built-in default ontology (version 1.0.0) passes validation as
\* section 4.1 defines it: the four required top-level fields, pairwise
\* distinct constraint ids, and an extractor key for every variable a
\* constraint declares.
C2_DefaultPassesValidation ==
    ontology = DefaultHandle =>
        /\ get_default_ontology.version = "1.0.0"
        /\ PassesValidation(get_default_ontology)

\* the properties of the default that C3 names
IsTheDefault(o) ==
    /\ o = DefaultHandle
    /\ get_default_ontology.name = "mortgage-compliance-v1"
    /\ get_default_ontology.version = "1.0.0"
    /\ Len(get_default_ontology.constraints) = 5
    /\ Cardinality(DOMAIN get_default_ontology.extractors) = 10

\* no external ontology was obtained by the last call of load: no client, or
\* the try block caught an error
NothingObtained ==
    /\ lastLoad.name # 0
    /\ ~lastLoad.hit
    /\ (~blob_service_client \/ lastLoad.caught # NoError)

\* load raises nothing, falls back to the default whenever nothing was
\* obtained, and returns a stored document only when it was fetched and the
\* test "field in ontology" found each of the four names in it
C3_Common ==
    /\ "load.raise" \in Events(trace) => ~ontology_name.hashable
    /\ NothingObtained => IsTheDefault(lastLoad.result)
    /\ lastLoad.name # 0 =>
          /\ lastLoad.result.src \in {"default", "stored"}
          /\ lastLoad.result.src = "default" => IsTheDefault(lastLoad.result)
          /\ (lastLoad.result.src = "stored" /\ ~lastLoad.hit) =>
                blob_service_client /\ lastLoad.contacted /\ lastLoad.caught = NoError

\* every value load has returned and not yet dropped
ReturnedValues ==
    {cache[i].value : i \in 1..Len(cache)}
        \cup (IF lastLoad.name # 0 THEN {lastLoad.result} ELSE {})

HasTheFields(o) == o.kind = "object" /\ RequiredSet \subseteq o.fields

PassedTheTest(o) ==
    /\ RequiredSet \subseteq o.fields
    /\ o.kind \in {"object", "array"}

Loaded(n) == loads' = loads + 1 /\ lastLoad'.name = n

\* C4 as stated: once load(name) has returned an ontology, every later
\* load(name) returns that same ontology without contacting storage, whatever
\* was loaded in between and whatever storage has become.
C4_CachedForever ==
    [][\A n \in Names :
          (Loaded(n) /\ returned[n] # NoOntology) =>
              (lastLoad'.result = returned[n] /\ ~lastLoad'.contacted)]_vars

\* C4, amended: the cache holds the maxsize (10) most recently used names:
\* once load(name) has returned an ontology, a later load(name) returns that
\* same ontology without contacting storage provided fewer than 10 other
\* distinct names were loaded since the last load(name); after 10 others the
\* entry is evicted and load(name) goes to storage again.
C4_CachedWhileRecent ==
    [][\A n \in Names :
          (Loaded(n) /\ returned[n] # NoOntology
             /\ Position(recency, n) \in 1..maxsize) =>
              (lastLoad'.hit /\ lastLoad'.result = returned[n] /\ ~lastLoad'.contacted)]_vars

\* a hit returned the revision cached before storage changed, with other
\* names loaded in between
C4_Witness ==
    /\ lastLoad.hit
    /\ lastLoad.result.src = "stored"
    /\ lastLoad.result.rev < rev
    /\ Len(recency) > 2

(***************************************************************************)
(* Properties of the pipeline on the default ontology.                     *)
(***************************************************************************)
ContainsAny(t, kws) == \E w \in kws : Contains(LowerText(t), w)

Violated(id) == \E i \in 1..Len(verification_result.violations) :
                    verification_result.violations[i] = id

\* the proof-trace records of constraint id
Records(id) ==
    {verification_result.proof[i] : i \in
        {k \in 1..Len(verification_result.proof) :
            verification_result.proof[k].constraint_id = id}}

Evaluated == pc = "done" /\ ontology = DefaultHandle /\ response.status_code = 200

MentionsGuarantee ==
    ContainsAny(llm_output, {<<"g","u","a","r","a","n","t","e","e","d">>,
                             <<"1","0","0","%">>,
                             <<"d","e","f","i","n","i","t","e","l","y">>})

MentionsApproval ==
    ContainsAny(llm_output, {<<"a","p","p","r","o","v","e","d">>,
                             <<"a","p","p","r","o","v","e">>})

\* C5: under the default ontology, a text that contains a has_guarantee
\* keyword and a has_approval keyword gets has_guarantee = true and
\* has_approval = true, UDAAP_NO_GUARANTEES evaluates to definite false, is in
\* violations and verified is false; a text without a keyword of one of the
\* two extractors does not get UDAAP_NO_GUARANTEES in violations.
C5_GuaranteeViolation ==
    Evaluated =>
        /\ (MentionsGuarantee /\ MentionsApproval) =>
              /\ extracted_data["has_guarantee"] = BoolV(TRUE)
              /\ extracted_data["has_approval"] = BoolV(TRUE)
              /\ \A r \in Records("UDAAP_NO_GUARANTEES") : r.truth_value = "F"
              /\ Records("UDAAP_NO_GUARANTEES") # {}
              /\ Violated("UDAAP_NO_GUARANTEES")
              /\ verification_result.verified = FALSE
        /\ ~(MentionsGuarantee /\ MentionsApproval) =>
              ~Violated("UDAAP_NO_GUARANTEES")

C5_Witness ==
    /\ Evaluated
    /\ MentionsGuarantee
    /\ MentionsApproval
    /\ Violated("UDAAP_NO_GUARANTEES")
    /\ ~verification_result.verified

NoDtiMention == ~ContainsAny(llm_output, {<<"d","t","i">>})

\* what C6 says of a text with no DTI mention, but for missing_variables
C6_Common(missing) ==
    (Evaluated /\ NoDtiMention) =>
        /\ extracted_data["dti"].tag = "absent"
        /\ ~Violated("ATR_QM_DTI")
        /\ Cardinality(Records("ATR_QM_DTI")) = 1
        /\ \A r \in Records("ATR_QM_DTI") :
              r.truth_value = "U" /\ r.missing_variables = missing

C10_OnlyThreeReported ==
    Evaluated =>
        /\ Lookup(extracted_data, "compensating_factors").tag = "absent"
        /\ Lookup(extracted_data, "fee_percentage").tag = "absent"
        /\ ~Violated("ATR_QM_DTI")
        /\ ~Violated("HOEPA_HIGH_COST")
        /\ \A r \in Records("ATR_QM_DTI") \cup Records("HOEPA_HIGH_COST") :
              r.truth_value # "F"
        /\ \A i \in 1..Len(verification_result.violations) :
              verification_result.violations[i] \in
                  {"UDAAP_NO_GUARANTEES", "HPML_ESCROW", "REG_B_ADVERSE"}

\* a DTI above 43 was extracted and ATR_QM_DTI is still not reported, while
\* another constraint is
C10_Witness ==
    /\ Evaluated
    /\ extracted_data["dti"].tag = "num"
    /\ extracted_data["dti"].num > 43 * extracted_data["dti"].den
    /\ ~Violated("ATR_QM_DTI")
    /\ Violated("HPML_ESCROW")

(***************************************************************************)
(* Properties of the endpoint.                                             *)
(***************************************************************************)
FullTrace == << "load.call", "load.return", "parse.call", "parse.return",
                "verify.call", "verify.return", "respond" >>

\* C7: in every handling of a request the stages run in the order load,
\* parse, verify, each at most once: the parser is invoked only after the
\* loader returned, the verifier only after the parser returned, and a 200
\* verification response is produced only after all three returned; OPTIONS is
\* answered 200 with an empty body, and a POST whose llm_output is missing or
\* empty is answered 400 "llm_output is required", both without invoking the
\* loader, the parser or the verifier.
C7_StageOrder ==
    /\ \A e \in {"load.call", "parse.call", "verify.call"} : Count(trace, e) <= 1
    /\ "parse.call" \in Events(trace) => IsPrefix(SubSeq(FullTrace, 1, 3), trace)
    /\ "verify.call" \in Events(trace) => IsPrefix(SubSeq(FullTrace, 1, 5), trace)
    /\ (response.status_code = 200 /\ response.kind = "result") => trace = FullTrace
    /\ (pc = "done" /\ req.method = "OPTIONS") =>
          /\ response.status_code = 200
          /\ response.kind = "empty"
          /\ trace = << >>
    /\ (pc = "done" /\ req.method = "POST" /\ req.body.kind = "object"
          /\ (~req.body.has_llm \/ req.body.llm = << >>)) =>
          /\ response.status_code = 400
          /\ response.error = "llm_output is required"
          /\ trace = << >>

C7_Witness ==
    /\ pc = "done"
    /\ response.status_code = 200
    /\ response.kind = "result"
    /\ trace = FullTrace
    /\ ontology.src = "stored"

\* C8: every response of the endpoint, on every path, carries an
\* Access-Control-Allow-Origin that is a member of ALLOWED_ORIGINS: the
\* request's Origin when that is in the list, the primary domain
\* https://aare.ai otherwise (also when no Origin is sent); an origin not in
\* the list is never echoed.
C8_AllowOrigin ==
    response # NoResponse =>
        /\ response.allow_origin \in
              {"https://aare.ai", "https://www.aare.ai",
               "http://localhost:8000", "http://localhost:3000"}
        /\ (req.headers.has_origin /\ req.headers.origin \in AllowedSet) =>
              response.allow_origin = req.headers.origin
        /\ ~(req.headers.has_origin /\ req.headers.origin \in AllowedSet) =>
              response.allow_origin = "https://aare.ai"

\* an error response to a request from an origin that is not allowed
C8_Witness ==
    /\ response.status_code = 500
    /\ req.headers.has_origin
    /\ req.headers.origin = "https://evil.example"
    /\ response.allow_origin = "https://aare.ai"

\* an error was raised by loading, extraction or evaluation
StageRaised ==
    Events(trace) \cap {"load.raise", "parse.raise", "verify.raise"} # {}

\* C9: the endpoint answers 400 only for faults of the request itself (a body
\* that is not valid JSON, a missing or empty llm_output): an error raised by
\* ontology loading, extraction or evaluation, of whatever type, is answered
\* 500 with that error's message and type name, never 400 "Invalid JSON in
\* request body".
C9_StageErrorsAre500 ==
    (pc = "done" /\ StageRaised) =>
        /\ response.status_code = 500
        /\ response.type # ""
        /\ response.error # "Invalid JSON in request body"

====
